---- MODULE Spec2Model ----
(***************************************************************************)
(* Client-side message feed of the chat application: the ChatWindow        *)
(* component (state, subscription lifecycle effect, fetchMessages,         *)
(* subscribeToMessages and its INSERT / DELETE / status callbacks,         *)
(* handleSendMessage), the ChatApp component that mounts it twice, and the *)
(* part of the message store and of the realtime feed the component talks  *)
(* to.  The repository holds two revisions of ChatWindow, one that pages   *)
(* the history and one that loads it whole; revision tells them apart.     *)
(*                                                                         *)
(* Every handler runs to completion on the UI event loop, so one action is *)
(* one handler, or one continuation of an async handler between two awaits.*)
(***************************************************************************)
EXTENDS Integers, Sequences, FiniteSets, TLC

\* ---------------------------------------------------------------- bounds
\* messages ever inserted into the store (identifiers 1..MaxMsgs)
MaxMsgs == 2
\* fetchMessages calls of one window that may be in flight together
MaxFetches == 2
\* channel objects that may exist together
MaxChannels == 4
\* rows per page: fetchMessages asks for .limit(50); the model scales the
\* page down so that full pages and short pages occur within MaxMsgs rows,
\* and older pages within History rows
PageSize == 2

\* handleSendMessage calls that may be in flight together
MaxSends == 2
\* rows a conversation with a history holds when the window opens on it
History == 3
\* create_direct_conversation calls that may be in flight together
MaxCalls == 2
\* conversations ever created
MaxConversations == 2

Windows == {"desktop", "mobile"}
\* the instance the single-window specification drives
Solo == "desktop"
Convs == {"A", "B"}
NoConv == "none"
MsgIds == 1..MaxMsgs
ChanIds == 1..MaxChannels
NoChan == 0
\* what the input can hold: nothing, white space only, a text
Texts == {"", " ", "hi"}
\* owner of a suspended call whose component instance was unmounted: its
\* state setters no longer reach any window
Detached == "detached"
\* the two revisions of the ChatWindow component the repository holds: the
\* one that pages the history (Load More) and the one that loads it whole
Revisions == {"paged", "whole"}
\* a column that holds null
Null == "null"
\* the users of the friends model
Users == {"u1", "u2", "u3"}
\* what a failed messages query reports: a network failure, or a rejection
\* by a row-level security policy
Failures == {"network", "rls"}
\* sender_profile.username of a message: the username of the profile found,
\* or the placeholder
Username == "username"
UnknownUser == "Unknown User"

VARIABLES
  mounted,         \* [Windows -> BOOLEAN]  the instance exists
  conversationId,  \* prop: a conversation or NoConv (null)
  currentUser,     \* prop: TRUE when the viewer is authenticated
  messages,        \* useState<Message[]>   sequence of message ids
  sender_profile,  \* the sender_profile of each entry of messages: the
                   \* username found, or the placeholder
  loading,         \* useState(false)
  hasMore,         \* useState(true)
  isLoadingMore,   \* useState(false)
  channelRef,      \* useRef(null)          channel id or NoChan
  superseded,      \* the channel the effect of the window removed last: its
                   \* callbacks still close over channelRef
  fetches,         \* fetchMessages calls suspended at an await
  inserting,       \* INSERT callbacks suspended at the profile lookup
  live,            \* channels subscribed and not yet removed
  chan,            \* channel id -> [conv, queue] (filter, undelivered events)
  store,           \* messages table: id -> [conv, st]
  newMessage,      \* useState("")         the typed text
  selectedImage,   \* useState(null)       TRUE when a file is selected
  sends,           \* handleSendMessage calls suspended at an await
  known,           \* history: ids a fetch returned or an INSERT event
                   \* announced to the window, and no DELETE event since
  maxLive,         \* history: most channels ever subscribed at one time
  revision,        \* the revision of ChatWindow the build holds
  friendships,     \* friendships table: pair of users -> status
  conversations,   \* conversations with their conversation_participants
  calls,           \* create_direct_conversation calls between statements
  last             \* history: the handler that ran last, the notices
                   \* (toast titles) it raised

vars == <<mounted, conversationId, currentUser, messages, sender_profile,
          loading, hasMore, isLoadingMore, channelRef, superseded, fetches,
          inserting, live, chan, store, newMessage, selectedImage, sends,
          known, maxLive, revision, friendships, conversations, calls, last>>

dbVars == <<friendships, conversations, calls>>

draftVars == <<newMessage, selectedImage>>

winVars == <<mounted, conversationId, currentUser, messages, sender_profile,
             loading, hasMore, isLoadingMore, channelRef>>

\* ---------------------------------------------------------------- helpers
\* was: the id was in the window's sequence when the handler started; for a
\* commit, conv is the conversation the Solo window had and was tells whether
\* it held a channel; for a completed fetch, id is the number of rows it
\* returned
Last(op, w, id, c) ==
  [op |-> op, w |-> w, id |-> id, conv |-> c, was |-> FALSE, toast |-> <<>>,
   err |-> "none"]
LastWas(op, w, id, c, was) == [Last(op, w, id, c) EXCEPT !.was = was]
\* toast({title, ...}) calls of the handler, in order
LastToast(op, w, id, c, titles) == [Last(op, w, id, c) EXCEPT !.toast = titles]

Ids(s) == {s[i] : i \in DOMAIN s}

\* created_at of a message: the store stamps rows with now() in insertion
\* order, so the identifier doubles as the timestamp.
CreatedAt(m) == m

SetMax(S) == CHOOSE x \in S : \A y \in S : y <= x

RECURSIVE TakeDesc(_, _)
\* .order("created_at", {ascending: false}).limit(n)
TakeDesc(S, n) ==
  IF n = 0 \/ S = {} THEN <<>>
  ELSE LET mx == SetMax(S) IN <<mx>> \o TakeDesc(S \ {mx}, n - 1)

\* Array.prototype.reverse
Reverse(s) == [i \in 1..Len(s) |-> s[Len(s) + 1 - i]]

\* mutant: splice(indexOf(id), 1), which drops the last entry when the id
\* is not found
SpliceOut(s, id) ==
  LET Keep(x) == x # id IN
  IF \E i \in DOMAIN s : s[i] = id THEN SelectSeq(s, Keep)
  ELSE SubSeq(s, 1, Len(s) - 1)

\* mutant: the filter predicate inverted (msg.id === id)
FilterOnly(s, id) ==
  LET Same(x) == x = id IN SelectSeq(s, Same)

\* Array.prototype.filter(msg => msg.id !== id)
RECURSIVE FilterOut(_, _)
FilterOut(s, id) ==
  IF s = <<>> THEN <<>>
  ELSE IF Head(s) = id THEN FilterOut(Tail(s), id)
       ELSE <<Head(s)>> \o FilterOut(Tail(s), id)

\* the sender profiles of the entries FilterOut(s, id) keeps (p runs parallel
\* to s)
RECURSIVE KeepProfiles(_, _, _)
KeepProfiles(s, p, id) ==
  IF s = <<>> \/ p = <<>> THEN <<>>
  ELSE IF Head(s) = id THEN KeepProfiles(Tail(s), Tail(p), id)
       ELSE <<Head(p)>> \o KeepProfiles(Tail(s), Tail(p), id)

\* mutant: a message whose profile was not found gets no sender_profile
SenderProfileNone(profile) == IF profile THEN Username ELSE Null

\* sender_profile of a message: of the profile row when the lookup gave one
\* (profile), the placeholder otherwise
SenderProfile(profile) == IF profile THEN Username ELSE UnknownUser

\* rows the messages query selects: conversation_id = c, is_deleted = false,
\* and created_at < before when the lt filter was added (before # 0)
QueryRows(c, before) ==
  {m \in DOMAIN store :
      /\ store[m].conv = c
      /\ store[m].st = "live"
      /\ (before = 0 \/ CreatedAt(m) < before)}

\* the rows the messages query resolves with: the paged revision asks for
\* the newest PageSize rows, newest first; the whole revision for every row,
\* .order('created_at', {ascending: true})
QueryPage(c, before) ==
  IF revision = "paged" THEN TakeDesc(QueryRows(c, before), PageSize)
  ELSE Reverse(TakeDesc(QueryRows(c, 0), Cardinality(QueryRows(c, 0))))

\* ------------------------------------------------------------ fetchMessages
\* a fetchMessages call suspended at one of its awaits.  conv is the
\* conversationId its closure captured, before the created_at bound of the
\* lt filter (0: none), page the rows the query returned, ascending.
Fetch(w, c, append, before, phase, page) ==
  [w |-> w, conv |-> c, append |-> append, before |-> before,
   phase |-> phase, page |-> page]

FetchesOf(w) == {f \in fetches : f.w = w}

CanIssue(f) == f \notin fetches /\ Cardinality(FetchesOf(f.w)) < MaxFetches

\* --------------------------------------------- subscription lifecycle effect
NoProps == [m |-> FALSE, c |-> NoConv, u |-> FALSE]
Props(w) == [m |-> mounted[w], c |-> conversationId[w], u |-> currentUser[w]]
EmptyChan == [conv |-> NoConv, queue |-> <<>>]
SetMin(S) == CHOOSE x \in S : \A y \in S : x <= y

\* mutant: the effect forgets to remove the channel it holds
CleanupNone(ws) == {}

\* the cleanup of the effect, for the windows ws: the channels handed to
\* supabase.removeChannel (if (channelRef.current) removeChannel(...))
Cleanup(ws) == {channelRef[w] : w \in ws} \ {NoChan}

\* most channels subscribed at one time while the effects of a commit run:
\* every cleanup (removeChannel) runs before any subscribeToMessages
PeakLive(removed, created) ==
  LET afterCleanup == live \ removed
      afterSubscribe == afterCleanup \cup created
  IN IF Cardinality(afterSubscribe) > Cardinality(afterCleanup)
     THEN Cardinality(afterSubscribe) ELSE Cardinality(afterCleanup)

\* One React commit that hands the windows the props np.  For every window
\* whose [conversationId, currentUser] changed or which unmounts, the cleanup
\* of the previous effect runs; then the effect body runs for every window
\* that mounted or whose dependencies changed.
Commit(np) ==
  LET cleaned == {w \in Windows : mounted[w] /\ np[w] # Props(w)}
      ran     == {w \in Windows : np[w].m /\ np[w] # Props(w)}
      active  == {w \in ran : np[w].c # NoConv /\ np[w].u}
      removed == Cleanup(cleaned)
      retired == [w \in Windows |->
                    IF ~np[w].m THEN NoChan
                    ELSE IF w \in cleaned /\ channelRef[w] # NoChan THEN channelRef[w]
                    ELSE superseded[w]]
      free    == ChanIds \ (live \cup removed \cup {retired[w] : w \in Windows})
      NewChan(w) == IF w = "desktop" \/ "desktop" \notin active
                    THEN SetMin(free)
                    ELSE SetMin(free \ {SetMin(free)})
      started == {Fetch(w, np[w].c, FALSE, 0, "query", <<>>) : w \in active}
      gone    == {w \in Windows : mounted[w] /\ ~np[w].m}
      kept    == {f \in fetches : f.w \notin gone}
  IN
  /\ np # [w \in Windows |-> Props(w)]
  /\ \A w \in Windows : ~np[w].m => np[w] = NoProps
  /\ Cardinality(free) >= Cardinality(active)
  /\ \A f \in started : f \notin kept /\ Cardinality({g \in kept : g.w = f.w}) < MaxFetches
  /\ mounted' = [w \in Windows |-> np[w].m]
  /\ conversationId' = [w \in Windows |-> np[w].c]
  /\ currentUser' = [w \in Windows |-> np[w].u]
  /\ channelRef' = [w \in Windows |->
        IF w \in active THEN NewChan(w)
        ELSE IF w \in cleaned THEN NoChan
        ELSE channelRef[w]]
  /\ superseded' = retired
  /\ live' = (live \ removed) \cup {NewChan(w) : w \in active}
  /\ LET peak == PeakLive(removed, {NewChan(w) : w \in active})
     IN maxLive' = IF peak > maxLive THEN peak ELSE maxLive
  /\ known' = [w \in Windows |-> IF w \in cleaned THEN {} ELSE known[w]]
  /\ chan' = [k \in ChanIds |->
        IF \E w \in active : NewChan(w) = k
        THEN [conv |-> np[CHOOSE w \in active : NewChan(w) = k].c, queue |-> <<>>]
        ELSE IF k \in removed THEN EmptyChan
        ELSE chan[k]]
  /\ messages' = [w \in Windows |->
        IF w \in gone \/ (w \in ran /\ w \notin active) THEN <<>>
        ELSE messages[w]]
  /\ sender_profile' = [w \in Windows |->
        IF w \in gone \/ (w \in ran /\ w \notin active) THEN <<>>
        ELSE sender_profile[w]]
  /\ loading' = [w \in Windows |->
        IF w \in active THEN TRUE
        ELSE IF w \in gone THEN FALSE
        ELSE loading[w]]
  /\ isLoadingMore' = [w \in Windows |->
        IF w \in active \/ w \in gone THEN FALSE ELSE isLoadingMore[w]]
  /\ hasMore' = [w \in Windows |-> IF w \in gone THEN TRUE ELSE hasMore[w]]
  /\ fetches' = kept \cup started
  /\ inserting' = [w \in Windows |-> IF w \in gone THEN {} ELSE inserting[w]]
  /\ newMessage' = [w \in Windows |-> IF w \in gone THEN "" ELSE newMessage[w]]
  /\ selectedImage' = [w \in Windows |-> IF w \in gone THEN FALSE ELSE selectedImage[w]]
  /\ sends' = {IF x.w \in gone THEN [x EXCEPT !.w = Detached] ELSE x : x \in sends}
  /\ UNCHANGED <<store, revision, dbVars>>
  /\ last' = LastWas("commit", "all", 0, conversationId[Solo], channelRef[Solo] # NoChan)

\* mutant: the flag is set whenever the page holds a row
MoreIfAny(data) == Len(data) > 0

\* setHasMore((messagesData || []).length === 50)
MoreAvailable(data) == Len(data) = PageSize

\* the tail of fetchMessages once the rows are there and the profiles
\* lookup resolved (profilesData: with rows, or with null): reverse to
\* ascending, prepend or replace, setHasMore, then the finally block.  The whole revision has no hasMore and no isLoadingMore: it
\* replaces the sequence by the rows as they came and clears loading.
FetchApply(f, data, profilesData) ==
  LET transformedMessages == IF revision = "paged" THEN Reverse(data) ELSE data
      profiles == [i \in 1..Len(data) |-> SenderProfile(profilesData)]
  IN
  /\ messages' = [messages EXCEPT ![f.w] =
        IF f.append THEN transformedMessages \o @ ELSE transformedMessages]
  /\ sender_profile' = [sender_profile EXCEPT ![f.w] =
        IF f.append THEN profiles \o @ ELSE profiles]
  /\ hasMore' = [hasMore EXCEPT ![f.w] =
        IF revision = "paged" THEN MoreAvailable(data) ELSE @]
  /\ loading' = [loading EXCEPT ![f.w] = FALSE]
  /\ isLoadingMore' = [isLoadingMore EXCEPT ![f.w] = FALSE]
  /\ known' = [known EXCEPT ![f.w] =
        IF f.conv = conversationId[f.w] THEN @ \cup Ids(data) ELSE @]

\* the Load More button: rendered while a conversation is selected and
\* hasMore, disabled while isLoadingMore; calls fetchMessages(messages[0]?.id, true)
LoadMore(w) ==
  /\ revision = "paged"
  /\ mounted[w] /\ conversationId[w] # NoConv
  /\ hasMore[w] /\ ~isLoadingMore[w]
  /\ currentUser[w]
  /\ LET before == IF messages[w] # <<>> THEN CreatedAt(messages[w][1]) ELSE 0
         f == Fetch(w, conversationId[w], TRUE, before, "query", <<>>)
     IN /\ CanIssue(f)
        /\ fetches' = fetches \cup {f}
        /\ last' = Last("loadMore", w, before, conversationId[w])
  /\ loading' = [loading EXCEPT ![w] = FALSE]
  /\ isLoadingMore' = [isLoadingMore EXCEPT ![w] = TRUE]
  /\ UNCHANGED <<mounted, conversationId, currentUser, messages, sender_profile, hasMore,
                 channelRef, inserting, live, chan, store, draftVars, sends,
                 known, maxLive, revision, superseded, dbVars>>

\* the messages query resolves with rows: the store is read now
FetchQueryReturns(f) ==
  /\ f \in fetches /\ f.phase = "query"
  /\ LET messagesData == QueryPage(f.conv, f.before) IN
     IF messagesData = <<>>
     THEN \* senderIds is empty: no profile lookup, the call finishes
          /\ FetchApply(f, messagesData, TRUE)
          /\ fetches' = fetches \ {f}
          /\ last' = Last(IF f.append THEN "moreDone" ELSE "initialDone", f.w,
                          Len(messagesData), f.conv)
     ELSE /\ fetches' = (fetches \ {f}) \cup {[f EXCEPT !.phase = "profiles", !.page = messagesData]}
          /\ last' = Last("queryDone", f.w, 0, f.conv)
          /\ UNCHANGED <<messages, sender_profile, hasMore, loading, isLoadingMore,
                          known>>
  /\ UNCHANGED <<mounted, conversationId, currentUser, channelRef, inserting,
                 live, chan, store, draftVars, sends, maxLive, revision, superseded, dbVars>>

\* the notices of fetchMessages for messagesError: the paged revision
\* returns without one; the whole revision raises "Access Denied" when the
\* error message includes 'row-level security', "Error" otherwise
FailureNotice(err) ==
  IF revision = "paged" THEN <<>>
  ELSE IF err = "rls" THEN <<"Access Denied">> ELSE <<"Error">>

\* mutant: the failure empties the sequence (setMessages([]) before return)
FetchQueryFailsClears(f) ==
  /\ f \in fetches /\ f.phase = "query"
  /\ fetches' = fetches \ {f}
  /\ messages' = [messages EXCEPT ![f.w] = <<>>]
  /\ sender_profile' = [sender_profile EXCEPT ![f.w] = <<>>]
  /\ loading' = [loading EXCEPT ![f.w] = FALSE]
  /\ isLoadingMore' = [isLoadingMore EXCEPT ![f.w] = FALSE]
  /\ \E err \in Failures :
        last' = [LastToast("fetchFailed", f.w, 0, f.conv, FailureNotice(err))
                   EXCEPT !.err = err]
  /\ UNCHANGED <<mounted, conversationId, currentUser, hasMore,
                 channelRef, inserting, live, chan, store, draftVars, sends,
                 known, maxLive, revision, superseded, dbVars>>

\* the messages query resolves with messagesError: return, then finally
FetchQueryFails(f) ==
  /\ f \in fetches /\ f.phase = "query"
  /\ fetches' = fetches \ {f}
  /\ loading' = [loading EXCEPT ![f.w] = FALSE]
  /\ isLoadingMore' = [isLoadingMore EXCEPT ![f.w] = FALSE]
  /\ \E err \in Failures :
        last' = [LastToast("fetchFailed", f.w, 0, f.conv, FailureNotice(err))
                   EXCEPT !.err = err]
  /\ UNCHANGED <<mounted, conversationId, currentUser, messages, sender_profile, hasMore,
                 channelRef, inserting, live, chan, store, draftVars, sends,
                 known, maxLive, revision, superseded, dbVars>>

\* the batched profiles lookup resolves: with the profiles of the senders
\* (profilesData), or with an error and no data
FetchProfilesReturn(f, profilesData) ==
  /\ f \in fetches /\ f.phase = "profiles"
  /\ FetchApply(f, f.page, profilesData)
  /\ fetches' = fetches \ {f}
  /\ last' = [Last(IF f.append THEN "moreDone" ELSE "initialDone", f.w,
                   Len(f.page), f.conv)
                EXCEPT !.err = IF profilesData THEN "none" ELSE "profile"]
  /\ UNCHANGED <<mounted, conversationId, currentUser, channelRef, inserting,
                 live, chan, store, draftVars, sends, maxLive, revision, superseded, dbVars>>

\* ------------------------------------------------- store and realtime feed
Event(ev, id) == [ev |-> ev, id |-> id]

\* postgres_changes with filter conversation_id=eq.c: the event is queued on
\* every live channel whose filter matches
Publish(c, e) ==
  chan' = [k \in ChanIds |->
     IF k \in live /\ chan[k].conv = c
     THEN [chan[k] EXCEPT !.queue = Append(@, e)]
     ELSE chan[k]]

\* a row of public.messages: conversation_id, is_deleted (st), content,
\* image_url (TRUE: a URL, FALSE: null) and message_type
Row(c, content, image, type) ==
  [conv |-> c, st |-> "live", content |-> content, image |-> image, type |-> type]

\* some participant's insert into messages commits (a text message)
ServerInsert(c) ==
  /\ Len(store) < MaxMsgs
  /\ store' = Append(store, Row(c, "hi", FALSE, "text"))
  /\ Publish(c, Event("INSERT", Len(store) + 1))
  /\ last' = Last("serverInsert", "all", Len(store) + 1, c)
  /\ UNCHANGED <<winVars, fetches, inserting, live, draftVars, sends, known, maxLive, revision, superseded, dbVars>>

\* is_deleted is set on a row: an UPDATE, which no channel listens to
ServerSoftDelete(m) ==
  /\ m \in DOMAIN store /\ store[m].st = "live"
  /\ store' = [store EXCEPT ![m].st = "soft"]
  /\ last' = Last("serverSoftDelete", "all", m, store[m].conv)
  /\ UNCHANGED <<winVars, fetches, inserting, live, chan, draftVars, sends,
                 known, maxLive, revision, superseded, dbVars>>

\* a row is deleted ("Users can delete their messages")
ServerDelete(m) ==
  /\ m \in DOMAIN store /\ store[m].st # "gone"
  /\ store' = [store EXCEPT ![m].st = "gone"]
  /\ Publish(store[m].conv, Event("DELETE", m))
  /\ last' = Last("serverDelete", "all", m, store[m].conv)
  /\ UNCHANGED <<winVars, fetches, inserting, live, draftVars, sends, known, maxLive, revision, superseded, dbVars>>

\* ------------------------------------------------------ subscribeToMessages
Owner(k) == CHOOSE w \in Windows : channelRef[w] = k

Pop(k) == chan' = [chan EXCEPT ![k].queue = Tail(@)]

\* INSERT callback up to its await: the sender's profile is looked up
OnInsert(k) ==
  /\ k \in live /\ chan[k].queue # <<>> /\ Head(chan[k].queue).ev = "INSERT"
  /\ LET id == Head(chan[k].queue).id
         w == Owner(k) IN
     /\ inserting' = [inserting EXCEPT ![w] = @ \cup {id}]
     /\ known' = [known EXCEPT ![w] = @ \cup {id}]
     /\ last' = Last("onInsert", w, id, chan[k].conv)
  /\ Pop(k)
  /\ UNCHANGED <<winVars, fetches, live, store, draftVars, sends, maxLive, revision, superseded, dbVars>>

\* mutant: the exists check is dropped
AlwaysAppend(prev, id) == Append(prev, id)

\* setMessages(prev => prev.some(id) ? prev : [...prev, newMessage])
AppendUnlessPresent(prev, id) ==
  IF \E i \in DOMAIN prev : prev[i] = id THEN prev ELSE Append(prev, id)

\* INSERT callback after the profile lookup resolved: with the profile of
\* the sender (profileData), or with an error and no data
InsertApply(w, id, profileData) ==
  /\ id \in inserting[w]
  /\ messages' = [messages EXCEPT ![w] = AppendUnlessPresent(@, id)]
  /\ sender_profile' = [sender_profile EXCEPT ![w] =
        IF id \in Ids(messages[w]) THEN @
        ELSE Append(@, SenderProfile(profileData))]
  /\ inserting' = [inserting EXCEPT ![w] = @ \ {id}]
  /\ last' = [LastWas("insertApplied", w, id, NoConv, id \in Ids(messages[w]))
                EXCEPT !.err = IF profileData THEN "none" ELSE "profile"]
  /\ UNCHANGED <<mounted, conversationId, currentUser, loading, hasMore,
                 isLoadingMore, channelRef, fetches, live, chan, store,
                 draftVars, sends, known, maxLive, revision, superseded, dbVars>>

\* DELETE callback: setMessages(prev => prev.filter(msg => msg.id !== old.id))
OnDelete(k) ==
  /\ k \in live /\ chan[k].queue # <<>> /\ Head(chan[k].queue).ev = "DELETE"
  /\ LET id == Head(chan[k].queue).id
         w == Owner(k) IN
     /\ messages' = [messages EXCEPT ![w] = FilterOut(@, id)]
     /\ sender_profile' = [sender_profile EXCEPT ![w] =
           KeepProfiles(messages[w], @, id)]
     /\ known' = [known EXCEPT ![w] = @ \ {id}]
     /\ last' = LastWas("onDelete", w, id, chan[k].conv, id \in Ids(messages[w]))
  /\ Pop(k)
  /\ UNCHANGED <<mounted, conversationId, currentUser, loading, hasMore,
                 isLoadingMore, channelRef, fetches, inserting, live, store,
                 draftVars, sends, maxLive, revision, superseded, dbVars>>

\* the window whose subscribeToMessages created channel k
Creator(k) == CHOOSE w \in Windows : channelRef[w] = k \/ superseded[w] = k

\* status callback of channel k with CHANNEL_ERROR, reported by the channel
\* the window holds or by the one its effect removed last: it removes
\* channelRef.current, if (channelRef.current)
OnChannelError(k) ==
  /\ k \in live \/ \E w \in Windows : mounted[w] /\ superseded[w] = k
  /\ LET w == Creator(k)
         held == channelRef[w] IN
     /\ live' = live \ {held}
     /\ chan' = [j \in ChanIds |-> IF j = held THEN EmptyChan ELSE chan[j]]
     /\ channelRef' = [channelRef EXCEPT ![w] = NoChan]
     /\ last' = Last("channelError", w, k, conversationId[w])
  /\ UNCHANGED <<mounted, conversationId, currentUser, messages, sender_profile,
                 loading, hasMore, isLoadingMore, fetches, inserting, store,
                 draftVars, sends, known, maxLive, revision, superseded, dbVars>>

\* --------------------------------------------------------- handleSendMessage
\* String.prototype.trim
Trim(t) == IF t = " " THEN "" ELSE t

\* a handleSendMessage call suspended at an await: at the image upload
\* ("upload"), at the insert before ("insert") or after the store ran it
\* ("stored")
Send(w, c, text, image, phase) ==
  [w |-> w, conv |-> c, text |-> text, image |-> image, phase |-> phase]

\* mutant: the row is typed 'text' whenever it has a text
messageDataTextFirst(x) ==
  Row(x.conv, IF x.text = "" THEN Null ELSE x.text, x.image,
      IF x.text # "" THEN "text" ELSE "image")

\* messageData of a call past the upload: content is the trimmed text or
\* null, image_url the uploaded URL or null, message_type 'image' when there
\* is an image_url and 'text' otherwise
messageData(x) ==
  Row(x.conv, IF x.text = "" THEN Null ELSE x.text, x.image,
      IF x.image THEN "image" ELSE "text")

\* mutant: the text is tested without trim()
SendRejectedNoTrim(w) ==
  \/ conversationId[w] = NoConv
  \/ ~currentUser[w]
  \/ (newMessage[w] = "" /\ ~selectedImage[w])

\* the early return of handleSendMessage
SendRejected(w) ==
  \/ conversationId[w] = NoConv
  \/ ~currentUser[w]
  \/ (Trim(newMessage[w]) = "" /\ ~selectedImage[w])

\* onChange of the text input
SetNewMessage(w, t) ==
  /\ mounted[w] /\ conversationId[w] # NoConv /\ ~loading[w]
  /\ t # newMessage[w]
  /\ newMessage' = [newMessage EXCEPT ![w] = t]
  /\ last' = Last("setNewMessage", w, 0, NoConv)
  /\ UNCHANGED <<winVars, fetches, inserting, live, chan, store,
                 selectedImage, sends, known, maxLive, revision, superseded, dbVars>>

\* handleImageSelect, and the remove button of the preview
SetSelectedImage(w, img) ==
  /\ mounted[w] /\ conversationId[w] # NoConv
  /\ img => ~loading[w]
  /\ img # selectedImage[w]
  /\ selectedImage' = [selectedImage EXCEPT ![w] = img]
  /\ last' = Last("setSelectedImage", w, 0, NoConv)
  /\ UNCHANGED <<winVars, fetches, inserting, live, chan, store, newMessage,
                 sends, known, maxLive, revision, superseded, dbVars>>

\* handleSendMessage up to its first await
handleSendMessage(w) ==
  /\ mounted[w]
  /\ IF SendRejected(w)
     THEN /\ last' = Last("sendRejected", w, 0, conversationId[w])
          /\ UNCHANGED <<loading, sends>>
     ELSE LET x == Send(w, conversationId[w], Trim(newMessage[w]), selectedImage[w],
                        IF selectedImage[w] THEN "upload" ELSE "insert") IN
          /\ x \notin sends /\ Cardinality(sends) < MaxSends
          /\ sends' = sends \cup {x}
          /\ loading' = [loading EXCEPT ![w] =
                IF selectedImage[w] \/ revision = "whole" THEN TRUE ELSE @]
          /\ last' = Last("sendStarted", w, 0, conversationId[w])
  /\ UNCHANGED <<mounted, conversationId, currentUser, messages, sender_profile, hasMore,
                 isLoadingMore, channelRef, fetches, inserting, live, chan,
                 store, draftVars, known, maxLive, revision, superseded, dbVars>>

\* uploadImage resolves: with the public URL (ok) or with null, which is
\* answered by the notice "Failed to upload image" and a return.  The paged
\* revision clears loading here, the whole revision in its finally block.
UploadReturns(x, ok) ==
  /\ x \in sends /\ x.phase = "upload"
  /\ loading' = [w \in Windows |->
        IF w = x.w /\ (revision = "paged" \/ ~ok) THEN FALSE ELSE loading[w]]
  /\ sends' = (sends \ {x}) \cup (IF ok THEN {[x EXCEPT !.phase = "insert"]} ELSE {})
  /\ last' = IF ok THEN Last("uploadDone", x.w, 0, x.conv)
             ELSE LastToast("uploadFailed", x.w, 0, x.conv, <<"Error">>)
  /\ UNCHANGED <<mounted, conversationId, currentUser, messages, sender_profile, hasMore,
                 isLoadingMore, channelRef, fetches, inserting, live, chan,
                 store, draftVars, known, maxLive, revision, superseded, dbVars>>

\* the store runs the insert of messageData
SendStored(x) ==
  /\ x \in sends /\ x.phase = "insert"
  /\ Len(store) < MaxMsgs
  /\ store' = Append(store, messageData(x))
  /\ Publish(x.conv, Event("INSERT", Len(store) + 1))
  /\ sends' = (sends \ {x}) \cup {[x EXCEPT !.phase = "stored"]}
  /\ last' = Last("sendStored", x.w, Len(store) + 1, x.conv)
  /\ UNCHANGED <<winVars, fetches, inserting, live, draftVars, known, maxLive, revision, superseded, dbVars>>

\* the insert resolved with an error in its result: the paged revision does
\* not look at the result and goes on as after a stored row; the whole
\* revision throws it, and its catch raises the notice "Error"
InsertNotice == IF revision = "paged" THEN <<>> ELSE <<"Error">>

\* the draft is cleared (setNewMessage(""), setSelectedImage(null)) unless
\* the whole revision has thrown the error of the insert
DraftCleared(x) == x.phase = "stored" \/ revision = "paged"

\* mutant: the sent message is appended to the sequence at once
SendReturnsOptimistic(x) ==
  /\ x \in sends /\ x.phase \in {"insert", "stored"}
  /\ sends' = sends \ {x}
  /\ messages' = [w \in Windows |->
        IF w = x.w /\ x.phase = "stored" THEN Append(messages[w], Len(store))
        ELSE messages[w]]
  /\ sender_profile' = [w \in Windows |->
        IF w = x.w /\ x.phase = "stored" THEN Append(sender_profile[w], Username)
        ELSE sender_profile[w]]
  /\ newMessage' = [w \in Windows |->
        IF w = x.w /\ DraftCleared(x) THEN "" ELSE newMessage[w]]
  /\ selectedImage' = [w \in Windows |->
        IF w = x.w /\ DraftCleared(x) THEN FALSE ELSE selectedImage[w]]
  /\ loading' = [w \in Windows |->
        IF w = x.w /\ revision = "whole" THEN FALSE ELSE loading[w]]
  /\ last' = IF x.phase = "stored" THEN Last("sendDone", x.w, 0, x.conv)
             ELSE LastToast("sendRefused", x.w, 0, x.conv, InsertNotice)
  /\ UNCHANGED <<mounted, conversationId, currentUser, hasMore, isLoadingMore,
                 channelRef, fetches, inserting, live, chan, store, known,
                 maxLive, revision, superseded, dbVars>>

\* the rest of handleSendMessage once the insert resolved, with a row stored
\* or with an error in the result; the whole revision clears loading in its
\* finally block
SendReturns(x) ==
  /\ x \in sends /\ x.phase \in {"insert", "stored"}
  /\ sends' = sends \ {x}
  /\ newMessage' = [w \in Windows |->
        IF w = x.w /\ DraftCleared(x) THEN "" ELSE newMessage[w]]
  /\ selectedImage' = [w \in Windows |->
        IF w = x.w /\ DraftCleared(x) THEN FALSE ELSE selectedImage[w]]
  /\ loading' = [w \in Windows |->
        IF w = x.w /\ revision = "whole" THEN FALSE ELSE loading[w]]
  /\ last' = IF x.phase = "stored" THEN Last("sendDone", x.w, 0, x.conv)
             ELSE LastToast("sendRefused", x.w, 0, x.conv, InsertNotice)
  /\ UNCHANGED <<mounted, conversationId, currentUser, messages, sender_profile, hasMore,
                 isLoadingMore, channelRef, fetches, inserting, live, chan,
                 store, known, maxLive, revision, superseded, dbVars>>

\* ------------------------------------------- friends and direct conversations
\* pairs of distinct users
Pairs == {{a, b} : a, b \in Users} \ {{a} : a \in Users}

\* a row of public.conversations with is_group = false, with the user_id of
\* its conversation_participants
Conversation(u, friend_user_id) ==
  [created_by |-> u, is_group |-> FALSE, participants |-> {u, friend_user_id}]

\* a create_direct_conversation call of user u (auth.uid()): the request is
\* on its way ("rpc"), or the SELECT has run and conversation_id holds what it
\* found, 0 for NULL ("selected")
Call(u, friend_user_id, phase, conversation_id) ==
  [u |-> u, friend_user_id |-> friend_user_id, phase |-> phase,
   conversation_id |-> conversation_id]

\* no friendship, no conversation, no call
DbIdle ==
  /\ friendships = [p \in Pairs |-> "none"]
  /\ conversations = <<>>
  /\ calls = {}

\* sendFriendRequest: a row with status 'pending' unless a friendship of the
\* two exists in either direction
sendFriendRequest(u, v) ==
  /\ u # v /\ friendships[{u, v}] = "none"
  /\ friendships' = [friendships EXCEPT ![{u, v}] = "pending"]
  /\ last' = Last("sendFriendRequest", u, 0, NoConv)
  /\ UNCHANGED <<winVars, superseded, fetches, inserting, live, chan, store,
                 draftVars, sends, known, maxLive, revision, conversations, calls>>

\* handleFriendRequest of a pending request: 'accept' updates the status to
\* 'accepted', 'decline' deletes the row
handleFriendRequest(p, action) ==
  /\ friendships[p] = "pending"
  /\ friendships' = [friendships EXCEPT ![p] =
        IF action = "accept" THEN "accepted" ELSE "none"]
  /\ last' = Last("handleFriendRequest", "all", 0, NoConv)
  /\ UNCHANGED <<winVars, superseded, fetches, inserting, live, chan, store,
                 draftVars, sends, known, maxLive, revision, conversations, calls>>

\* supabase.rpc('create_direct_conversation', {friend_user_id}) is sent by u
rpc(u, friend_user_id) ==
  LET c == Call(u, friend_user_id, "rpc", 0) IN
  /\ u # friend_user_id
  /\ c \notin calls /\ Cardinality(calls) < MaxCalls
  /\ calls' = calls \cup {c}
  /\ UNCHANGED <<winVars, superseded, fetches, inserting, live, chan, store,
                 draftVars, sends, known, maxLive, revision, friendships,
                 conversations>>

\* the button of an entry of acceptedFriends
startChatWithFriend(u, friendUserId) ==
  /\ u # friendUserId /\ friendships[{u, friendUserId}] = "accepted"
  /\ rpc(u, friendUserId)
  /\ last' = Last("startChatWithFriend", u, 0, NoConv)

\* the Start Chat button of the profile of userId (rendered for any user but
\* the viewer when the parent passes onStartChat): the call the function
\* accepts from every authenticated session, whatever the friendship
handleStartChat(u, userId) ==
  /\ u # userId
  /\ rpc(u, userId)
  /\ last' = Last("handleStartChat", u, 0, NoConv)

\* the non-group conversations whose participants are exactly the two users
DirectOf(u, friend_user_id) ==
  {i \in DOMAIN conversations :
      /\ ~conversations[i].is_group
      /\ u \in conversations[i].participants
      /\ friend_user_id \in conversations[i].participants
      /\ Cardinality(conversations[i].participants) = 2}

\* create_direct_conversation, its SELECT ... INTO conversation_id: the
\* statement sees the rows committed before it
CreateSelect(c) ==
  /\ c \in calls /\ c.phase = "rpc"
  /\ LET found == DirectOf(c.u, c.friend_user_id)
         conversation_id == IF found = {} THEN 0 ELSE SetMin(found) IN
     /\ calls' = (calls \ {c}) \cup
           {Call(c.u, c.friend_user_id, "selected", conversation_id)}
     /\ last' = Last("createSelect", c.u, conversation_id, NoConv)
  /\ UNCHANGED <<winVars, superseded, fetches, inserting, live, chan, store,
                 draftVars, sends, known, maxLive, revision, friendships,
                 conversations>>

\* create_direct_conversation from IF conversation_id IS NULL to RETURN: the
\* two INSERTs become visible when the call commits.  last.id is the
\* identifier returned, last.conv the friend, last.was tells whether the
\* call created the conversation.
CreateReturn(c) ==
  /\ c \in calls /\ c.phase = "selected"
  /\ IF c.conversation_id = 0
     THEN /\ Len(conversations) < MaxConversations
          /\ conversations' = Append(conversations, Conversation(c.u, c.friend_user_id))
          /\ last' = LastWas("createReturn", c.u, Len(conversations) + 1,
                             c.friend_user_id, TRUE)
     ELSE /\ conversations' = conversations
          /\ last' = Last("createReturn", c.u, c.conversation_id, c.friend_user_id)
  /\ calls' = calls \ {c}
  /\ UNCHANGED <<winVars, superseded, fetches, inserting, live, chan, store,
                 draftVars, sends, known, maxLive, revision, friendships>>

\* ------------------------------------------------------------ specification
Init ==
  /\ mounted = [w \in Windows |-> FALSE]
  /\ conversationId = [w \in Windows |-> NoConv]
  /\ currentUser = [w \in Windows |-> FALSE]
  /\ messages = [w \in Windows |-> <<>>]
  /\ sender_profile = [w \in Windows |-> <<>>]
  /\ loading = [w \in Windows |-> FALSE]
  /\ hasMore = [w \in Windows |-> TRUE]
  /\ isLoadingMore = [w \in Windows |-> FALSE]
  /\ channelRef = [w \in Windows |-> NoChan]
  /\ superseded = [w \in Windows |-> NoChan]
  /\ fetches = {}
  /\ inserting = [w \in Windows |-> {}]
  /\ live = {}
  /\ chan = [k \in ChanIds |-> EmptyChan]
  /\ store = <<>>
  /\ newMessage = [w \in Windows |-> ""]
  /\ selectedImage = [w \in Windows |-> FALSE]
  /\ sends = {}
  /\ known = [w \in Windows |-> {}]
  /\ maxLive = 0
  /\ DbIdle
  /\ revision \in Revisions
  /\ last = Last("init", "all", 0, NoConv)

\* the parent renders the Solo window with the props (c, u), or not at all
SoloProps(p) == [w \in Windows |-> IF w = Solo THEN p ELSE Props(w)]

Mount(c, u) ==
  /\ ~mounted[Solo]
  /\ Commit(SoloProps([m |-> TRUE, c |-> c, u |-> u]))

Rerender(c, u) ==
  /\ mounted[Solo]
  /\ Commit(SoloProps([m |-> TRUE, c |-> c, u |-> u]))

Unmount ==
  /\ mounted[Solo]
  /\ Commit(SoloProps(NoProps))

\* what the store, the feed and the network do on their own
\* (every profile lookup finds its profile)
FetchSteps ==
  \/ \E f \in fetches : FetchQueryReturns(f)
  \/ \E f \in fetches : FetchProfilesReturn(f, TRUE)

InsertSteps ==
  \/ \E k \in ChanIds : OnInsert(k)
  \/ \E w \in Windows, m \in MsgIds : InsertApply(w, m, TRUE)

\* One conversation selection: the window is opened on a conversation and
\* closed again, against the whole environment.
Open == Mount("A", TRUE)

Next ==
  \/ Open
  \/ Unmount
  \/ \E w \in Windows : LoadMore(w)
  \/ FetchSteps
  \/ \E f \in fetches : FetchQueryFails(f)
  \/ \E c \in Convs : ServerInsert(c)
  \/ \E m \in MsgIds : ServerSoftDelete(m)
  \/ \E m \in MsgIds : ServerDelete(m)
  \/ InsertSteps
  \/ \E k \in ChanIds : OnDelete(k)
  \/ \E k \in ChanIds : OnChannelError(k)

Spec == Init /\ [][Next]_vars

\* Conversation switching: the parent selects A, B or no conversation in any
\* order for an authenticated viewer; rows are inserted into A and never
\* deleted.
SwitchNext ==
  \/ \E c \in Convs \cup {NoConv} : Mount(c, TRUE)
  \/ \E c \in Convs \cup {NoConv} : Rerender(c, TRUE)
  \/ Unmount
  \/ \E w \in Windows : LoadMore(w)
  \/ FetchSteps
  \/ \E f \in fetches : FetchQueryFails(f)
  \/ ServerInsert("A")
  \/ InsertSteps
  \/ \E k \in ChanIds : OnChannelError(k)

SwitchSpec == Init /\ [][SwitchNext]_vars

\* ------------------------------------------------------------------ ChatApp
\* ChatApp renders ChatWindow twice with the same props: in the desktop
\* layout always, in the mobile layout while showMobileChat.
selectedConversation == conversationId["desktop"]
showMobileChat == mounted["mobile"]

AppProps(c, mobile) ==
  [w \in Windows |->
     IF w = "desktop" \/ mobile THEN [m |-> TRUE, c |-> c, u |-> TRUE]
     ELSE NoProps]

\* setSelectedConversation(id); setShowMobileChat(true)
handleSelectConversation(id) == Commit(AppProps(id, TRUE))

\* setShowMobileChat(false); setSelectedConversation(null); the button is
\* rendered while showMobileChat
handleBackToSidebar ==
  /\ showMobileChat
  /\ Commit(AppProps(NoConv, FALSE))

\* ChatApp once its profile is loaded: the desktop window is mounted with no
\* conversation selected
AppInit ==
  /\ mounted = [w \in Windows |-> w = "desktop"]
  /\ conversationId = [w \in Windows |-> NoConv]
  /\ currentUser = [w \in Windows |-> w = "desktop"]
  /\ messages = [w \in Windows |-> <<>>]
  /\ sender_profile = [w \in Windows |-> <<>>]
  /\ loading = [w \in Windows |-> FALSE]
  /\ hasMore = [w \in Windows |-> TRUE]
  /\ isLoadingMore = [w \in Windows |-> FALSE]
  /\ channelRef = [w \in Windows |-> NoChan]
  /\ superseded = [w \in Windows |-> NoChan]
  /\ fetches = {}
  /\ inserting = [w \in Windows |-> {}]
  /\ live = {}
  /\ chan = [k \in ChanIds |-> EmptyChan]
  /\ store = <<>>
  /\ newMessage = [w \in Windows |-> ""]
  /\ selectedImage = [w \in Windows |-> FALSE]
  /\ sends = {}
  /\ known = [w \in Windows |-> {}]
  /\ maxLive = 0
  /\ DbIdle
  /\ revision \in Revisions
  /\ last = Last("init", "all", 0, NoConv)

\* the two windows of ChatApp over conversations that hold no rows (every
\* page is empty, so no profile lookup is made)
AppNext ==
  \/ \E id \in Convs : handleSelectConversation(id)
  \/ handleBackToSidebar
  \/ \E w \in Windows : LoadMore(w)
  \/ \E f \in fetches : FetchQueryReturns(f)
  \/ \E f \in fetches : FetchQueryFails(f)
  \/ \E k \in ChanIds : OnChannelError(k)

AppSpec == AppInit /\ [][AppNext]_vars

\* Sending: the window is mounted with or without a conversation and a
\* viewer, deselected and unmounted; the viewer types, picks an image and
\* sends; the only rows are the ones the viewer sends.
SendNext ==
  \/ \E c \in {"A", NoConv}, u \in BOOLEAN : Mount(c, u)
  \/ Rerender(NoConv, TRUE)
  \/ Unmount
  \/ \E w \in Windows, t \in Texts : SetNewMessage(w, t)
  \/ \E w \in Windows, img \in BOOLEAN : SetSelectedImage(w, img)
  \/ \E w \in Windows : handleSendMessage(w)
  \/ \E x \in sends, ok \in BOOLEAN : UploadReturns(x, ok)
  \/ \E x \in sends : SendStored(x)
  \/ \E x \in sends : SendReturns(x)
  \/ FetchSteps
  \/ InsertSteps

SendSpec == Init /\ [][SendNext]_vars

\* Paging through a history: the paged revision opens on a conversation that
\* holds History rows; rows are deleted or marked deleted, none is added.
PageInit ==
  /\ mounted = [w \in Windows |-> FALSE]
  /\ conversationId = [w \in Windows |-> NoConv]
  /\ currentUser = [w \in Windows |-> FALSE]
  /\ messages = [w \in Windows |-> <<>>]
  /\ sender_profile = [w \in Windows |-> <<>>]
  /\ loading = [w \in Windows |-> FALSE]
  /\ hasMore = [w \in Windows |-> TRUE]
  /\ isLoadingMore = [w \in Windows |-> FALSE]
  /\ channelRef = [w \in Windows |-> NoChan]
  /\ superseded = [w \in Windows |-> NoChan]
  /\ fetches = {}
  /\ inserting = [w \in Windows |-> {}]
  /\ live = {}
  /\ chan = [k \in ChanIds |-> EmptyChan]
  /\ store = [m \in 1..History |-> Row("A", "hi", FALSE, "text")]
  /\ newMessage = [w \in Windows |-> ""]
  /\ selectedImage = [w \in Windows |-> FALSE]
  /\ sends = {}
  /\ known = [w \in Windows |-> {}]
  /\ maxLive = 0
  /\ DbIdle
  /\ revision = "paged"
  /\ last = Last("init", "all", 0, NoConv)

PageNext ==
  \/ Open
  \/ Unmount
  \/ \E w \in Windows : LoadMore(w)
  \/ FetchSteps
  \/ \E f \in fetches : FetchQueryFails(f)
  \/ \E m \in 1..History : ServerSoftDelete(m)
  \/ \E m \in 1..History : ServerDelete(m)
  \/ \E k \in ChanIds : OnDelete(k)

PageSpec == PageInit /\ [][PageNext]_vars

\* Profile lookups that fail: one selection of conversation A in which the
\* profiles lookup of a fetch or of an INSERT callback may resolve without
\* data.
ProfileNext ==
  \/ Open
  \/ Unmount
  \/ \E w \in Windows : LoadMore(w)
  \/ \E f \in fetches : FetchQueryReturns(f)
  \/ \E f \in fetches, profilesData \in BOOLEAN : FetchProfilesReturn(f, profilesData)
  \/ ServerInsert("A")
  \/ \E k \in ChanIds : OnInsert(k)
  \/ \E w \in Windows, m \in MsgIds, profileData \in BOOLEAN :
        InsertApply(w, m, profileData)
  \/ \E m \in MsgIds : ServerDelete(m)
  \/ \E k \in ChanIds : OnDelete(k)

ProfileSpec == Init /\ [][ProfileNext]_vars

\* Friends and direct conversations: the users send, accept and decline
\* friend requests and start chats; create_direct_conversation calls of
\* different sessions interleave between their statements.
DbInit == Init /\ revision = "paged"

DbNext ==
  \/ \E u, v \in Users : sendFriendRequest(u, v)
  \/ \E p \in Pairs, action \in {"accept", "decline"} : handleFriendRequest(p, action)
  \/ \E u, v \in Users : startChatWithFriend(u, v)
  \/ \E u, v \in Users : handleStartChat(u, v)
  \/ \E c \in calls : CreateSelect(c)
  \/ \E c \in calls : CreateReturn(c)

DbSpec == DbInit /\ [][DbNext]_vars

\* The subscription after a channel error: one selection of conversation A;
\* what the network and the feed have started completes (weak fairness),
\* the viewer and the other participants act or not.
ErrorNext ==
  \/ Open
  \/ Unmount
  \/ FetchSteps
  \/ ServerInsert("A")
  \/ InsertSteps
  \/ \E k \in ChanIds : OnChannelError(k)

ErrorSpec ==
  /\ Init
  /\ [][ErrorNext]_vars
  /\ WF_vars(FetchSteps)
  /\ WF_vars(InsertSteps)

\* ------------------------------------------------------------------ claims
FeedFlagsKept(w) ==
  /\ hasMore'[w] = hasMore[w]
  /\ loading'[w] = loading[w]
  /\ isLoadingMore'[w] = isLoadingMore[w]

\* C1: the message sequence never holds two entries with the same
\* identifier (stated as the claim says it; the code breaks it).
C1_UniqueIds ==
  \A w \in Windows : \A i, j \in DOMAIN messages[w] :
     i # j => messages[w][i] # messages[w][j]

\* C2: the message sequence is ordered by creation timestamp ascending
\* (stated as the claim says it; the code breaks it).
C2_Ascending ==
  \A w \in Windows : \A i, j \in DOMAIN messages[w] :
     i < j => CreatedAt(messages[w][i]) <= CreatedAt(messages[w][j])

\* nothing of the window is in flight: no fetch, no INSERT callback, no
\* undelivered event
Quiet(w) ==
  /\ FetchesOf(w) = {}
  /\ inserting[w] = {}
  /\ channelRef[w] # NoChan => chan[channelRef[w]].queue = <<>>

\* C3: once fetches and notification handlers have completed, every
\* non-deleted message a fetch returned or an INSERT event announced (and no
\* DELETE event since) is in the sequence (stated as the claim says it; the
\* code breaks it).
C3_NoMessageLost ==
  \A w \in Windows :
     (mounted[w] /\ Quiet(w)) =>
        \A m \in known[w] : store[m].st = "live" => m \in Ids(messages[w])

\* C4: an INSERT notification whose id is already in the sequence leaves the
\* sequence as it is; one whose id is not appends exactly that message at the
\* end.
C4_InsertRule ==
  [][\A w \in Windows :
       (last'.op = "insertApplied" /\ last'.w = w) =>
          IF \E i \in DOMAIN messages[w] : messages[w][i] = last'.id
          THEN messages'[w] = messages[w]
          ELSE /\ Len(messages'[w]) = Len(messages[w]) + 1
               /\ SubSeq(messages'[w], 1, Len(messages[w])) = messages[w]
               /\ messages'[w][Len(messages'[w])] = last'.id]_vars

\* an INSERT callback found its id in a sequence of two or more messages
C4_Witness ==
  /\ last.op = "insertApplied" /\ last.was
  /\ Len(messages[last.w]) >= 2

\* C5: a DELETE notification for an id that is not in the sequence changes
\* neither the sequence nor hasMore, loading, isLoadingMore.
C5_DeleteAbsentNoOp ==
  [][\A w \in Windows :
       (/\ last'.op = "onDelete" /\ last'.w = w
        /\ \A i \in DOMAIN messages[w] : messages[w][i] # last'.id) =>
          (messages'[w] = messages[w] /\ FeedFlagsKept(w))]_vars

\* a DELETE callback ran for an id that was not in a non-empty sequence
C5_Witness ==
  /\ last.op = "onDelete" /\ ~last.was
  /\ messages[last.w] # <<>>

C7_OneSubscription == Cardinality(live) <= 1

\* C8: when the conversation changes or the window is unmounted, the channel
\* the window holds is removed (it was subscribed until then and is not
\* afterwards), the removal precedes the creation of the next channel, so
\* that no two channels of the window are ever subscribed together, and an
\* unmounted window holds none.
C8_Handover ==
  /\ [](/\ maxLive <= 1
        /\ \A w \in Windows : ~mounted[w] => channelRef[w] = NoChan
        /\ ~mounted[Solo] => live = {})
  /\ [][\A w \in Windows :
          (/\ last'.op = "commit"
           /\ Props(w)' # Props(w)
           /\ channelRef[w] # NoChan) =>
             /\ channelRef[w] \in live
             /\ channelRef[w] \notin live'
             /\ channelRef'[w] # channelRef[w]
             /\ (mounted'[w] /\ conversationId'[w] # NoConv) =>
                   (channelRef'[w] \in live' /\ live' = {channelRef'[w]})]_vars

\* the window switched from one conversation to another, each with its channel
C8_Witness ==
  /\ last.op = "commit" /\ last.conv = "A" /\ last.was
  /\ conversationId[Solo] = "B"
  /\ channelRef[Solo] # NoChan

\* C9: a fetch issued for one conversation that completes while another (or
\* none) is selected changes neither the sequence nor hasMore, loading,
\* isLoadingMore (stated as the claim says it; the code breaks it).
C9_StaleFetchDiscarded ==
  [][\A w \in Windows :
       (/\ last'.op \in {"initialDone", "moreDone", "fetchFailed"}
        /\ last'.w = w
        /\ last'.conv # conversationId[w]) =>
          (messages'[w] = messages[w] /\ FeedFlagsKept(w))]_vars

\* C10: handleSendMessage called with no conversation, no viewer, or a text
\* that trims to nothing and no image, starts no upload and no insert and
\* changes no state.
C10_RejectedSend ==
  [][\A w \in Windows :
       (/\ last'.op \in {"sendRejected", "sendStarted"}
        /\ last'.w = w
        /\ \/ conversationId[w] = NoConv
           \/ ~currentUser[w]
           \/ (newMessage[w] \in {"", " "} /\ ~selectedImage[w])) =>
          UNCHANGED <<winVars, draftVars, sends, store, chan, fetches,
                      inserting, live>>]_vars

\* a send of white space only was rejected for a viewer in a conversation
C10_Witness ==
  /\ last.op = "sendRejected"
  /\ newMessage[last.w] = " " /\ ~selectedImage[last.w]
  /\ conversationId[last.w] # NoConv /\ currentUser[last.w]

\* C11: every row Send persists is typed 'image' when it has an image
\* reference (with or without text) and 'text' when it has a text and no
\* image, and has a text or an image.
C11_TypedRows ==
  [][last'.op = "sendStored" =>
       LET r == store'[Len(store')] IN
       /\ Len(store') = Len(store) + 1
       /\ r.image => r.type = "image"
       /\ (~r.image /\ r.content # Null) => r.type = "text"
       /\ r.image \/ r.content # Null]_vars

\* a send with a text and an image was persisted
C11_Witness ==
  /\ last.op = "sendStored"
  /\ store[last.id].image /\ store[last.id].content = "hi"

\* C12: no step of Send (rejection, start, upload, insert, completion)
\* changes the message sequence of any window.
C12_SendKeepsSequence ==
  [][last'.op \in {"sendRejected", "sendStarted", "uploadDone", "uploadFailed",
                   "sendStored", "sendDone", "sendRefused"} =>
       messages' = messages]_vars

\* a send completed while its message was not yet in the sequence of the
\* window that sent it
C12_Witness ==
  /\ last.op = "sendDone" /\ last.w \in Windows
  /\ mounted[last.w] /\ conversationId[last.w] = last.conv
  /\ \E m \in DOMAIN store :
        store[m].conv = last.conv /\ m \notin Ids(messages[last.w])

\* C13: after every completed initial load or load-older fetch, hasMore is
\* true exactly when the fetch returned PageSize rows.
C13_MoreIffFullPage ==
  [][\A w \in Windows :
       (last'.op \in {"initialDone", "moreDone"} /\ last'.w = w) =>
          (hasMore'[w] <=> last'.id = PageSize)]_vars

\* a load-older fetch returned a short page that holds rows, after a full
\* first page
C13_Witness ==
  /\ last.op = "moreDone"
  /\ last.id > 0 /\ last.id < PageSize
  /\ ~hasMore[last.w]
  /\ Len(messages[last.w]) > PageSize

\* C14: the rows a load-older fetch prepends are older than every message
\* the sequence held when they were prepended, and are in ascending order
\* (stated as the claim says it; the code breaks it).
C14_PrependsOlder ==
  [][\A w \in Windows :
       (last'.op = "moreDone" /\ last'.w = w /\ Len(messages'[w]) >= last'.id) =>
          LET page == SubSeq(messages'[w], 1, last'.id) IN
          /\ \A i \in DOMAIN page : \A j \in DOMAIN messages[w] :
                CreatedAt(page[i]) < CreatedAt(messages[w][j])
          /\ \A i, j \in DOMAIN page :
                i < j => CreatedAt(page[i]) < CreatedAt(page[j])]_vars

\* C15: with nothing of the window in flight, no message of its sequence is
\* marked deleted (is_deleted) in the store (stated as the claim says it; the
\* code breaks it).
C15_SoftDeletedHidden ==
  \A w \in Windows :
     (mounted[w] /\ Quiet(w)) =>
        \A i \in DOMAIN messages[w] : store[messages[w][i]].st # "soft"

C17_FailureNoticed ==
  [][last'.op = "fetchFailed" => Len(last'.toast) = 1]_vars

\* C18: a fetch rejected by row-level security raises the "Access Denied"
\* notice, and no other failed fetch raises it (stated as the claim says it;
\* the code breaks it).
C18_AccessDeniedNotice ==
  [][last'.op = "fetchFailed" =>
       (last'.err = "rls" <=> last'.toast = <<"Access Denied">>)]_vars

\* C19: when the insert of a send resolves with an error, a notice is raised
\* and no other insert is started (stated as the claim says it; the code
\* breaks it).
C19_SendFailureNoticed ==
  [][last'.op = "sendRefused" =>
       (last'.toast # <<>> /\ sends' \subseteq sends)]_vars

\* C20: when an INSERT handler appends its message, no INSERT event delivered
\* before it on the subscription (a smaller id) is still at its profile
\* lookup with its message missing from the sequence (stated as the claim
\* says it; the code breaks it).
C20_DeliveryOrder ==
  [][\A w \in Windows :
       (last'.op = "insertApplied" /\ last'.w = w /\ ~last'.was) =>
          \A a \in inserting[w] :
             a < last'.id => a \in Ids(messages[w])]_vars

\* C21: when the conversation of a window changes (switch or deselection),
\* the channel it held is removed and, from that commit on, its sequence
\* holds no message of the conversation it left (stated as the claim says
\* it; the code breaks it).
C21_ResetOnSwitch ==
  [][\A w \in Windows :
       (/\ last'.op = "commit"
        /\ mounted[w] /\ mounted'[w]
        /\ conversationId'[w] # conversationId[w]) =>
          /\ channelRef[w] # NoChan => channelRef[w] \notin live'
          /\ \A i \in DOMAIN messages'[w] :
                store[messages'[w][i]].conv # conversationId[w]]_vars

\* C22: a channel error leaves the reporting channel removed and not held,
\* and a window that stays on its conversation without a channel holds a
\* subscribed channel again later (stated as the claim says it; the code
\* breaks it).
C22_Resubscribes ==
  /\ [][last'.op = "channelError" =>
          (channelRef'[last'.w] = NoChan /\ last'.id \notin live')]_vars
  /\ \A w \in Windows :
        [](/\ mounted[w] /\ conversationId[w] # NoConv /\ currentUser[w]
           /\ channelRef[w] = NoChan
           => <>(~mounted[w] \/ channelRef[w] \in live))

\* C23: an INSERT callback whose profile lookup gave no profile still
\* appends its message unless the id is present, with the sender profile
\* 'Unknown User'; a fetch whose profiles lookup gave no data still yields
\* its page, every row with the sender profile 'Unknown User'.
C23_PlaceholderProfile ==
  [][\A w \in Windows :
       /\ (last'.op = "insertApplied" /\ last'.w = w /\ last'.err = "profile") =>
             IF \E i \in DOMAIN messages[w] : messages[w][i] = last'.id
             THEN /\ messages'[w] = messages[w]
                  /\ sender_profile'[w] = sender_profile[w]
             ELSE /\ messages'[w] = Append(messages[w], last'.id)
                  /\ sender_profile'[w] = Append(sender_profile[w], UnknownUser)
       /\ (/\ last'.op \in {"initialDone", "moreDone"}
           /\ last'.w = w /\ last'.err = "profile") =>
             /\ last'.id > 0
             /\ Len(messages'[w]) =
                   last'.id + (IF last'.op = "moreDone" THEN Len(messages[w]) ELSE 0)
             /\ Len(sender_profile'[w]) = Len(messages'[w])
             /\ \A i \in 1..last'.id :
                   /\ messages'[w][i] \in DOMAIN store
                   /\ sender_profile'[w][i] = UnknownUser]_vars

\* an INSERT callback whose lookup gave no profile appended its message
\* behind one whose profile was found
C23_Witness ==
  /\ last.op = "insertApplied" /\ last.err = "profile" /\ ~last.was
  /\ Len(messages[last.w]) >= 2
  /\ sender_profile[last.w][1] = Username
  /\ sender_profile[last.w][Len(messages[last.w])] = UnknownUser

\* C24: no two direct conversations hold the same two users, and a
\* create_direct_conversation call that returns while a direct conversation
\* of the two exists returns that one and creates none (stated as the claim
\* says it; the code breaks it).
C24_OneDirectConversation ==
  /\ [](\A u, v \in Users : u # v => Cardinality(DirectOf(u, v)) <= 1)
  /\ [][(last'.op = "createReturn" /\ DirectOf(last'.w, last'.conv) # {}) =>
          (/\ last'.id \in DirectOf(last'.w, last'.conv)
           /\ conversations' = conversations)]_vars

\* C25: a direct conversation is created only while the friendship of its
\* two participants has the status 'accepted' (stated as the claim says it;
\* the code breaks it).
C25_FriendsOnly ==
  [][Len(conversations') > Len(conversations) =>
       friendships[conversations'[Len(conversations')].participants] = "accepted"]_vars

\* C26: a message whose DELETE event the channel of the window has delivered
\* (the row is gone and no DELETE event for it waits on the channel the
\* window has held since its selection) is not in the sequence (stated as
\* the claim says it; the code breaks it).
C26_DeletedStaysOut ==
  \A w \in Windows : \A m \in DOMAIN store :
     (/\ mounted[w] /\ channelRef[w] # NoChan
      /\ store[m].st = "gone"
      /\ \A i \in DOMAIN chan[channelRef[w]].queue :
            chan[channelRef[w]].queue[i] # Event("DELETE", m)) =>
        m \notin Ids(messages[w])

\* C27: an INSERT callback that completes its profile lookup after the
\* window left the conversation of its message (for another or for none)
\* adds nothing to the sequence (stated as the claim says it; the code
\* breaks it).
C27_StaleInsertDropped ==
  [][\A w \in Windows :
       (/\ last'.op = "insertApplied" /\ last'.w = w
        /\ store[last'.id].conv # conversationId[w]) =>
          messages'[w] = messages[w]]_vars

\* C28: a CHANNEL_ERROR status removes no channel but the one that reported
\* it: reported by a channel the window no longer holds, it leaves the held
\* channel subscribed and held (stated as the claim says it; the code
\* breaks it).
C28_ErrorRemovesReporter ==
  [][last'.op = "channelError" =>
       /\ (live \ live') \subseteq {last'.id}
       /\ channelRef[last'.w] # last'.id =>
             channelRef'[last'.w] = channelRef[last'.w]]_vars

\* C29: a window has at most one load-older fetch in flight, and while one
\* is in flight isLoadingMore is true (stated as the claim says it; the code
\* breaks it).
C29_OneLoadOlder ==
  \A w \in Windows :
     LET older == {f \in FetchesOf(w) : f.append} IN
     /\ Cardinality(older) <= 1
     /\ older # {} => isLoadingMore[w]

\* C30: a send whose image upload failed or whose insert the store refused
\* stores no row and leaves the typed text and the selected image as they
\* were (stated as the claim says it; the code breaks it).
C30_DraftKeptOnFailure ==
  [][last'.op \in {"uploadFailed", "sendRefused"} =>
       (/\ store' = store
        /\ newMessage' = newMessage
        /\ selectedImage' = selectedImage)]_vars

====
